---- MODULE Spec2Model ----
\* aqara-agent2mqtt (src/src/main.rs): the bridge between the MQTT broker and
\* the miio agent's seqpacket socket.  Two tasks run on one cooperative
\* (current_thread) scheduler and interleave at their await points:
\*   mqtt_manager  - broker session, subscription, inbound dispatch loop
\*   agent_manager - agent socket connect loop, handshake, select! loop
\* They share SENDING_TOPIC_COMMAND (a Mutex) and the mpsc command channel.
EXTENDS Integers, Sequences, FiniteSets, TLC

VARIABLES
    sending_command,  \* SENDING_TOPIC_COMMAND (the record): [id, to, from]
    lock_holder, \* the tasks holding the Mutex of SENDING_TOPIC_COMMAND
    chan,        \* the mpsc channel: Strings sent and not yet received
    bm_pc,       \* mqtt_manager's position
    bm_pending,  \* the String mqtt_manager holds while command_tx.send is pending
    session,     \* the broker session: "disconnected" | "connected"
    subscribed,  \* whether the broker holds the miio/command subscription
    lost,        \* the stream holds a None (connection lost) not yet read
    am_pc,       \* agent_manager's position
    hs,          \* number of handshake messages handed to the socket so far
    sock_out,    \* what was handed to send() on the current agent socket
    rx_last,     \* the non-empty datagram recv() returned last on the current
                 \* socket (None: none yet)
    pubs,        \* the publish calls made while handling rx_last, in order
    in_hist,     \* the payloads of the messages stream.next() returned, in order
    enq_hist,    \* every String command_tx.send accepted, in order
    wr_hist      \* every command String handed to agent_socket.send, in order

vars == <<sending_command, lock_holder, chan, bm_pc, bm_pending, session, subscribed, lost,
          am_pc, hs, sock_out, pubs, rx_last, in_hist, enq_hist, wr_hist>>

bm_vars == <<bm_pc, bm_pending, session, subscribed, lost>>
am_vars == <<am_pc, hs, sock_out, pubs, rx_last, wr_hist>>

\* ---------------------------------------------------------------- bounds
\* The channel is mpsc::channel::<String>(32) (main.rs:341); the model keeps
\* its behaviour (FIFO, send waits while full) at a smaller capacity.
ChanCap == 2
\* Commands the broker delivers in one run.
MaxCmds == 3

\* ------------------------------------------------------------- constants
TOPIC_COMMAND == "miio/command"
TOPIC_COMMAND_ACK == "miio/command_ack"
TOPIC_RESPONSE == "openmiio/report"

\* cli.bind_id, None => 0 (main.rs:331-334); the model runs with the default.
bind_id == 0

\* --------------------------------------------------------------- payloads
\* A payload is a byte string.  The model keeps of it what the code looks
\* at: whether the bytes are valid UTF-8 (enc), whether the text is JSON and
\* of which shape (syn), and the values under the keys id, _to, _from.
\*   enc: "utf8"     valid UTF-8 bytes
\*        "invalid"  bytes holding an invalid UTF-8 sequence
\*        "replaced" the text String::from_utf8_lossy makes of "invalid"
\*                   bytes (U+FFFD in place of the bad sequences)
\*   syn: "object" | "array" | "malformed" (of the text once decoded)
\* A JSON value is [type, num]; num is meaningful for numbers only.
None == {}
Some(x) == {x}

Num(n) == [type |-> "number", num |-> n]
Str == [type |-> "string", num |-> 0]

NoFields == [k \in {} |-> Num(0)]

Doc(enc, syn, fields) == [enc |-> enc, syn |-> syn, fields |-> fields]

\* What the broker may deliver on miio/command.
CommandPayloads ==
    { Doc("utf8", "object", ("id" :> Num(1)) @@ ("_to" :> Num(1)) @@ ("_from" :> Num(2))),
      Doc("utf8", "object", ("id" :> Num(2))),
      Doc("utf8", "object", ("id" :> Str) @@ ("_to" :> Num(2))),
      Doc("utf8", "malformed", NoFields),
      Doc("invalid", "malformed", NoFields) }

\* What recv() on the agent socket may return (n > 0).
Datagrams ==
    { Doc("utf8", "object", ("id" :> Num(0))),
      Doc("utf8", "object", ("id" :> Num(1))),
      Doc("utf8", "object", NoFields),
      Doc("utf8", "object", ("id" :> Num(-1))),
      Doc("utf8", "malformed", NoFields),
      Doc("invalid", "object", ("id" :> Num(0))) }

\* Message::payload_str() is String::from_utf8_lossy: valid UTF-8 comes out
\* unchanged, anything else comes out as a different (valid) text.
payload_str(p) ==
    IF p.enc = "invalid" THEN [p EXCEPT !.enc = "replaced"] ELSE p

\* serde_json::from_str on a String: Ok(Value) or Err.
from_str(s) == IF s.syn = "malformed" THEN None ELSE Some(s)

\* serde_json::from_slice on bytes: invalid UTF-8 is an error too.
from_slice(b) ==
    IF b.enc = "invalid" \/ b.syn = "malformed" THEN None ELSE Some(b)

\* Value::get(key): Some only on an object holding the key.
get(v, key) ==
    IF v.syn = "object" /\ key \in DOMAIN v.fields
    THEN Some(v.fields[key]) ELSE None

\* .and_then(|v| v.as_u64()): Some only for a non-negative integer.
as_u64(opt) ==
    { v.num : v \in { w \in opt : w.type = "number" /\ w.num >= 0 } }

\* ------------------------------------------------------ handshake messages
RegisterKeys ==
    << "auto.report", "auto.forward", "lanbox.event", "auto.ifttt",
       "auto.cross.ifttt", "matter.control", "matter.event", "mtbr.control" >>

BindMsg == [kind |-> "bind", address |-> bind_id]
RegisterMsg(i) == [kind |-> "register", key |-> RegisterKeys[i]]
CmdMsg(p) == [kind |-> "cmd", payload |-> p]

\* The n-th (0-based) message of the handshake: the bind, then the array.
HandshakeMsg(n) == IF n = 0 THEN BindMsg ELSE RegisterMsg(n)

HandshakeLen == 1 + Len(RegisterKeys)

\* ------------------------------------------------------------------ init
Init ==
    /\ sending_command = [id |-> 0, to |-> 0, from |-> 0]
    /\ lock_holder = None
    /\ chan = <<>>
    /\ bm_pc = "connect"
    /\ bm_pending = None
    /\ session = "disconnected"
    /\ subscribed = FALSE
    /\ lost = FALSE
    /\ am_pc = "disconnected"
    /\ hs = 0
    /\ sock_out = <<>>
    /\ rx_last = None
    /\ pubs = <<>>
    /\ in_hist = <<>>
    /\ enq_hist = <<>>
    /\ wr_hist = <<>>

\* ------------------------------------------------------------ the channel
\* tokio::sync::mpsc, bounded: send completes only while a slot is free and
\* otherwise leaves the sender suspended; recv takes the oldest String.
\* has_capacity of an unbounded channel.
has_capacity_unbounded(q) == TRUE
has_capacity(q) == Len(q) < ChanCap
chan_send(q, s) == Append(q, s)
\* chan_front taking the newest String instead of the oldest.
chan_front_newest(q) == q[Len(q)]
chan_front(q) == Head(q)
\* chan_rest leaving the String that was taken in the channel.
chan_rest_keeps_front(q) == q
chan_rest(q) == Tail(q)

\* ------------------------------------------------------- correlation record
Pick(S) == CHOOSE x \in S : TRUE

\* update_record rebuilding the record from the message: absent keys reset.
update_record_reset(rec, json_msg) ==
    LET id == as_u64(get(json_msg, "id"))
        to == as_u64(get(json_msg, "_to"))
        from == as_u64(get(json_msg, "_from"))
    IN [id |-> IF id # None THEN Pick(id) ELSE 0,
        to |-> IF to # None THEN Pick(to) ELSE 0,
        from |-> IF from # None THEN Pick(from) ELSE 0]

\* update_record remembering the id of the first command still unanswered:
\* the id is written only over the default.
update_record_keeps_first_id(rec, json_msg) ==
    LET id == as_u64(get(json_msg, "id"))
        to == as_u64(get(json_msg, "_to"))
        from == as_u64(get(json_msg, "_from"))
    IN [id |-> IF id # None /\ rec.id = 0 THEN Pick(id) ELSE rec.id,
        to |-> IF to # None THEN Pick(to) ELSE rec.to,
        from |-> IF from # None THEN Pick(from) ELSE rec.from]

\* main.rs:142-151: each field is written only when its key yields a u64.
update_record(rec, json_msg) ==
    LET id == as_u64(get(json_msg, "id"))
        to == as_u64(get(json_msg, "_to"))
        from == as_u64(get(json_msg, "_from"))
    IN [id |-> IF id # None THEN Pick(id) ELSE rec.id,
        to |-> IF to # None THEN Pick(to) ELSE rec.to,
        from |-> IF from # None THEN Pick(from) ELSE rec.from]

\* record_after clearing the record when the payload does not parse.
record_after_clears(rec, payload) ==
    LET parsed == from_str(payload)
    IN IF parsed # None THEN update_record(rec, Pick(parsed))
       ELSE [id |-> 0, to |-> 0, from |-> 0]

\* main.rs:140-160: the match on serde_json::from_str(&payload).
record_after(rec, payload) ==
    LET parsed == from_str(payload)
    IN IF parsed # None THEN update_record(rec, Pick(parsed)) ELSE rec

\* ---------------------------------------------------------------- the lock
\* SENDING_TOPIC_COMMAND is a std::sync::Mutex: lock() gives a guard, and the
\* lock is released where the guard goes out of scope.  A handler is the
\* code a task runs from one await to the next; it is listed here as the
\* operations it performs on the lock and the record, in program order:
\*   "lock" "unlock"                      the guard is taken / dropped
\*   "write_id" "write_to" "write_from"   a field of the record is assigned
\*   "compare"                            the record's id is read and compared
\*   "await_publish"                      mqtt_client.publish(..).await
\* The tasks holding the lock after `task` ran ops, `held` holding it before.
RECURSIVE run_ops(_, _, _)
run_ops(task, ops, held) ==
    IF ops = <<>> THEN held
    ELSE LET op == Head(ops)
             h == IF op = "lock" THEN held \cup {task}
                  ELSE IF op = "unlock" THEN held \ {task}
                  ELSE held
         IN run_ops(task, Tail(ops), h)

\* Lines 140-160 on the String payload: the guard is taken at 142 in the Ok
\* arm and dropped at the end of that arm (155); the Err arm takes no lock.
mqtt_section(payload) ==
    LET parsed == from_str(payload)
        write(key, op) ==
            IF as_u64(get(Pick(parsed), key)) # None THEN <<op>> ELSE <<>>
    IN IF parsed = None THEN <<>>
       ELSE <<"lock">> \o write("id", "write_id") \o write("_to", "write_to")
               \o write("_from", "write_from") \o <<"unlock">>

\* agent_section with the guard bound in the scope of the whole Ok(n) arm:
\* it is still held while the publish is awaited.
agent_section_guard_outlives_publish(datagram) ==
    LET parsed == from_slice(datagram)
    IN IF parsed = None THEN <<>>
       ELSE IF as_u64(get(Pick(parsed), "id")) # None
            THEN <<"lock", "compare", "await_publish", "unlock">>
            ELSE <<"await_publish">>

\* Lines 254-277 on a datagram: the guard is taken at 262 inside the
\* `if let Some(recv_id)` and dropped at the end of it (266), before the
\* publish of 274-276 is awaited; a datagram that does not parse: continue.
agent_section(datagram) ==
    LET parsed == from_slice(datagram)
    IN IF parsed = None THEN <<>>
       ELSE (IF as_u64(get(Pick(parsed), "id")) # None
             THEN <<"lock", "compare", "unlock">> ELSE <<>>)
            \o <<"await_publish">>

\* ------------------------------------------------------------ mqtt_manager
\* Positions: "connect" (108), "connect_sleep" (122), "subscribe" (116),
\* "dispatch" (131), "send" (137, suspended on a full channel),
\* "reconnect" (70), "resubscribe" (71), "reconnect_sleep" (76), and
\* "returned": past the end of the body, where the arguments are dropped.
\* The body ends in the loop of 128-171, which has no break and no return.

\* command_tx is the only Sender (main.rs:341-346: tx is moved into
\* mqtt_manager and never cloned); it is dropped when mqtt_manager returns.
command_tx_dropped == bm_pc = "returned"

\* mqtt_client.connect(..) => Err(e): log, sleep 500 ms.
MqttConnectErr ==
    /\ bm_pc = "connect"
    /\ session = "disconnected"
    /\ bm_pc' = "connect_sleep"
    /\ UNCHANGED <<sending_command, lock_holder, chan, bm_pending, session, subscribed, lost>>
    /\ UNCHANGED <<am_vars, in_hist, enq_hist>>

\* The sleep of line 122 is over: next iteration of the connect loop.
MqttConnectSleepDone ==
    /\ bm_pc = "connect_sleep"
    /\ bm_pc' = "connect"
    /\ UNCHANGED <<sending_command, lock_holder, chan, bm_pending, session, subscribed, lost>>
    /\ UNCHANGED <<am_vars, in_hist, enq_hist>>

\* connect => Ok(response) without a connect_response(): the loop goes
\* straight back to line 108, with no sleep.
MqttConnectNoResponse ==
    /\ bm_pc = "connect"
    /\ session = "disconnected"
    /\ session' = "connected"
    /\ UNCHANGED <<sending_command, lock_holder, chan, bm_pc, bm_pending, subscribed, lost>>
    /\ UNCHANGED <<am_vars, in_hist, enq_hist>>

\* connect => Ok(response) with a connect_response(): go on to mqtt_subscribe.
MqttConnectOk ==
    /\ bm_pc = "connect"
    /\ session' = "connected"
    /\ bm_pc' = "subscribe"
    /\ UNCHANGED <<sending_command, lock_holder, chan, bm_pending, subscribed, lost>>
    /\ UNCHANGED <<am_vars, in_hist, enq_hist>>

\* after_subscribe with mqtt_manager giving up (returning) when a subscribe
\* fails.
after_subscribe_returns(pc, ok) == IF ok THEN "dispatch" ELSE "returned"

\* after_subscribe with mqtt_reconnect retrying at once when the
\* subscribe failed (a `continue` in place of falling through to the sleep).
after_subscribe_no_delay(pc, ok) ==
    IF pc = "subscribe" THEN "dispatch"
    ELSE IF ok THEN "dispatch" ELSE "reconnect"

\* Where mqtt_subscribe's caller goes on a given result.  The initial loop
\* (116-117) drops the result and breaks; mqtt_reconnect (71-76) returns on
\* true and sleeps on false.
after_subscribe(pc, ok) ==
    IF pc = "subscribe" THEN "dispatch"
    ELSE IF ok THEN "dispatch" ELSE "reconnect_sleep"

\* mqtt_subscribe: subscribe(TOPIC_COMMAND, 0) succeeded, returns true.
MqttSubscribeOk ==
    /\ bm_pc \in {"subscribe", "resubscribe"}
    /\ session = "connected"
    /\ subscribed' = TRUE
    /\ bm_pc' = after_subscribe(bm_pc, TRUE)
    /\ UNCHANGED <<sending_command, lock_holder, chan, bm_pending, session, lost>>
    /\ UNCHANGED <<am_vars, in_hist, enq_hist>>

\* mqtt_subscribe: subscribe failed: client.disconnect, returns false.
MqttSubscribeFail ==
    /\ bm_pc \in {"subscribe", "resubscribe"}
    /\ session' = "disconnected"
    /\ subscribed' = FALSE
    /\ bm_pc' = after_subscribe(bm_pc, FALSE)
    /\ UNCHANGED <<sending_command, lock_holder, chan, bm_pending, lost>>
    /\ UNCHANGED <<am_vars, in_hist, enq_hist>>

\* The broker connection drops while the stream exists: the client's
\* connection-lost callback puts a None on the stream.
BrokerConnectionLost ==
    /\ bm_pc \in {"dispatch", "send"}
    /\ session = "connected"
    /\ session' = "disconnected"
    /\ subscribed' = FALSE
    /\ lost' = TRUE
    /\ UNCHANGED <<sending_command, lock_holder, chan, bm_pc, bm_pending>>
    /\ UNCHANGED <<am_vars, in_hist, enq_hist>>

\* Forward with the update of the record left for a later turn of the task:
\* the String is in the channel and the record is not yet written.
Forward_without_update(payload) ==
    /\ chan' = chan_send(chan, payload)
    /\ enq_hist' = Append(enq_hist, payload)
    /\ UNCHANGED <<sending_command, lock_holder>>

\* Lines 137-160 once command_tx.send has a slot: the enqueue, then the
\* parse and the update of the record, with no await in between.
Forward(payload) ==
    /\ chan' = chan_send(chan, payload)
    /\ enq_hist' = Append(enq_hist, payload)
    /\ sending_command' = record_after(sending_command, payload)
    /\ lock_holder' = run_ops("mqtt_manager", mqtt_section(payload), lock_holder)

\* stream.next() => Some(Some(msg)), msg.topic() == TOPIC_COMMAND.
MqttDispatch(msg) ==
    /\ bm_pc = "dispatch"
    /\ session = "connected" /\ subscribed
    /\ Len(in_hist) < MaxCmds
    /\ in_hist' = Append(in_hist, msg)
    /\ LET payload == payload_str(msg)
       IN IF has_capacity(chan)
          THEN /\ Forward(payload)
               /\ UNCHANGED <<bm_pc, bm_pending>>
          ELSE /\ bm_pc' = "send"
               /\ bm_pending' = Some(payload)
               /\ UNCHANGED <<sending_command, lock_holder, chan, enq_hist>>
    /\ UNCHANGED <<session, subscribed, lost>>
    /\ UNCHANGED am_vars

\* The suspended command_tx.send completes once the receiver freed a slot.
MqttSendResume ==
    /\ bm_pc = "send"
    /\ has_capacity(chan)
    /\ Forward(Pick(bm_pending))
    /\ bm_pc' = "dispatch"
    /\ bm_pending' = None
    /\ UNCHANGED <<session, subscribed, lost, in_hist>>
    /\ UNCHANGED am_vars

\* stream.next() => Some(None): "MQTT Connection lost", enter mqtt_reconnect.
MqttStreamNone ==
    /\ bm_pc = "dispatch"
    /\ lost
    /\ lost' = FALSE
    /\ bm_pc' = "reconnect"
    /\ UNCHANGED <<sending_command, lock_holder, chan, bm_pending, session, subscribed>>
    /\ UNCHANGED <<am_vars, in_hist, enq_hist>>

\* mqtt_reconnect: client.reconnect() failed: sleep 500 ms.
MqttReconnectErr ==
    /\ bm_pc = "reconnect"
    /\ bm_pc' = "reconnect_sleep"
    /\ UNCHANGED <<sending_command, lock_holder, chan, bm_pending, session, subscribed, lost>>
    /\ UNCHANGED <<am_vars, in_hist, enq_hist>>

\* mqtt_reconnect: client.reconnect() is_ok: go on to mqtt_subscribe.
MqttReconnectOk ==
    /\ bm_pc = "reconnect"
    /\ session' = "connected"
    /\ bm_pc' = "resubscribe"
    /\ UNCHANGED <<sending_command, lock_holder, chan, bm_pending, subscribed, lost>>
    /\ UNCHANGED <<am_vars, in_hist, enq_hist>>

\* mqtt_reconnect: the sleep of line 76 is over: next iteration.
MqttReconnectSleepDone ==
    /\ bm_pc = "reconnect_sleep"
    /\ bm_pc' = "reconnect"
    /\ UNCHANGED <<sending_command, lock_holder, chan, bm_pending, session, subscribed, lost>>
    /\ UNCHANGED <<am_vars, in_hist, enq_hist>>

\* ----------------------------------------------------------- agent_manager
\* Positions: "disconnected" (top of the outer loop: at start, and in the
\* sleep of line 290 after the select! loop broke), "connect" (216),
\* "connect_sleep" (234), "handshake" (219-231, hs messages sent),
\* "active" (the select! loop, 237-289), "returned" (after the `return` of
\* line 248).

\* Line 212: (the sleep of line 290 is over and) the outer loop starts an
\* iteration; the socket of the previous iteration is dropped.
AgentLoopTop ==
    /\ am_pc = "disconnected"
    /\ am_pc' = "connect"
    /\ sock_out' = <<>>
    /\ hs' = 0
    /\ rx_last' = None
    /\ pubs' = <<>>
    /\ UNCHANGED <<sending_command, lock_holder, chan, in_hist, enq_hist, wr_hist>>
    /\ UNCHANGED bm_vars

\* AgentConnectFail with the bind sent before the result of connect is looked at.
AgentConnectFail_sends_bind ==
    /\ am_pc = "connect"
    /\ am_pc' = "connect_sleep"
    /\ sock_out' = Append(sock_out, BindMsg)
    /\ UNCHANGED <<sending_command, lock_holder, chan, in_hist, enq_hist, hs, pubs, rx_last, wr_hist>>
    /\ UNCHANGED bm_vars

\* UnixSeqpacket::connect => Err: sleep 500 ms (234).
AgentConnectFail ==
    /\ am_pc = "connect"
    /\ am_pc' = "connect_sleep"
    /\ UNCHANGED <<sending_command, lock_holder, chan, in_hist, enq_hist, hs, sock_out, pubs, rx_last, wr_hist>>
    /\ UNCHANGED bm_vars

\* The sleep of line 234 is over: next connect attempt.
AgentConnectSleepDone ==
    /\ am_pc = "connect_sleep"
    /\ am_pc' = "connect"
    /\ UNCHANGED <<sending_command, lock_holder, chan, in_hist, enq_hist, hs, sock_out, pubs, rx_last, wr_hist>>
    /\ UNCHANGED bm_vars

\* UnixSeqpacket::connect => Ok(socket).
AgentConnectOk ==
    /\ am_pc = "connect"
    /\ am_pc' = "handshake"
    /\ UNCHANGED <<sending_command, lock_holder, chan, in_hist, enq_hist, hs, sock_out, pubs, rx_last, wr_hist>>
    /\ UNCHANGED bm_vars

\* after_handshake_send entering the select! loop once the bind is sent
\* (`break socket` placed before the registrations).
after_handshake_send_after_bind(n) == IF n >= 1 THEN "active" ELSE "handshake"

\* Where the handshake stands after n messages: `break socket` after the
\* last one, into the select! loop.
after_handshake_send(n) == IF n = HandshakeLen THEN "active" ELSE "handshake"

\* One `let _ = socket.send(..).await` of lines 219-231; its result (ok) is
\* dropped.
AgentHandshakeSend(ok) ==
    /\ am_pc = "handshake"
    /\ hs < HandshakeLen
    /\ sock_out' = Append(sock_out, HandshakeMsg(hs))
    /\ hs' = hs + 1
    /\ am_pc' = after_handshake_send(hs + 1)
    /\ UNCHANGED <<sending_command, lock_holder, chan, in_hist, enq_hist, pubs, rx_last, wr_hist>>
    /\ UNCHANGED bm_vars

\* after_send leaving agent_manager when the write fails.
after_send_returns_on_error(ok) == IF ok THEN "active" ELSE "returned"

\* after_send with the result of the write dropped, as in the handshake.
after_send_ignores_error(ok) == "active"

\* Where the select! loop goes after agent_socket.send of a command.
after_send(ok) == IF ok THEN "active" ELSE "disconnected"

\* select!: command_rx.recv() resolves: to Some(payload) while the channel
\* holds a String, then agent_socket.send(payload); to None once the channel
\* is empty and its Sender is dropped, then `return`.
AgentSendCmd(ok) ==
    /\ am_pc = "active"
    /\ chan # <<>> \/ command_tx_dropped
    /\ IF chan # <<>>
       THEN /\ LET payload == chan_front(chan)
               IN /\ sock_out' = Append(sock_out, CmdMsg(payload))
                  /\ wr_hist' = Append(wr_hist, payload)
            /\ chan' = chan_rest(chan)
            /\ am_pc' = after_send(ok)
       ELSE /\ am_pc' = "returned"
            /\ UNCHANGED <<sock_out, wr_hist, chan>>
    /\ UNCHANGED <<sending_command, lock_holder, in_hist, enq_hist, hs, pubs, rx_last>>
    /\ UNCHANGED bm_vars

\* topic_for without the comparison against the record: any id acknowledges.
topic_for_any_id(msg, rec) ==
    IF as_u64(get(msg, "id")) # None THEN TOPIC_COMMAND_ACK ELSE TOPIC_RESPONSE

\* Lines 255-266: the topic for a datagram that parsed.
topic_for(msg, rec) ==
    LET recv_id == as_u64(get(msg, "id"))
    IN IF recv_id # None /\ rec.id = Pick(recv_id)
       THEN TOPIC_COMMAND_ACK ELSE TOPIC_RESPONSE

PubMsg(topic, payload) == [topic |-> topic, payload |-> payload]

\* publish_for without the `continue` of line 270: a datagram that does not
\* parse goes out on the default topic.
publish_for_no_continue(datagram, rec) ==
    LET parsed == from_slice(datagram)
    IN IF parsed = None THEN << PubMsg(TOPIC_RESPONSE, datagram) >>
       ELSE << PubMsg(topic_for(Pick(parsed), rec), datagram) >>

\* Lines 254-277: what a datagram adds to the publish calls: nothing when
\* it does not parse (continue), one publish of its bytes otherwise.
publish_for(datagram, rec) ==
    LET parsed == from_slice(datagram)
    IN IF parsed = None THEN <<>>
       ELSE << PubMsg(topic_for(Pick(parsed), rec), datagram) >>

\* select!: agent_socket.recv(&mut buf) => Ok(n), n > 0.
AgentRecv(datagram) ==
    /\ am_pc = "active"
    /\ rx_last' = Some(datagram)
    /\ pubs' = publish_for(datagram, sending_command)
    /\ lock_holder' = run_ops("agent_manager", agent_section(datagram), lock_holder)
    /\ UNCHANGED <<sending_command, chan, in_hist, enq_hist, am_pc, hs, sock_out, wr_hist>>
    /\ UNCHANGED bm_vars

\* select!: recv => Ok(0): "Agent socket closed (EOF)", break.
AgentRecvEof ==
    /\ am_pc = "active"
    /\ am_pc' = "disconnected"
    /\ UNCHANGED <<sending_command, lock_holder, chan, in_hist, enq_hist, hs, sock_out, pubs, rx_last, wr_hist>>
    /\ UNCHANGED bm_vars

\* AgentRecvErr tearing the broker session down as well.
AgentRecvErr_drops_broker ==
    /\ am_pc = "active"
    /\ am_pc' = "disconnected"
    /\ session' = "disconnected"
    /\ subscribed' = FALSE
    /\ UNCHANGED <<sending_command, lock_holder, chan, in_hist, enq_hist, hs, sock_out, pubs, rx_last, wr_hist>>
    /\ UNCHANGED <<bm_pc, bm_pending, lost>>

\* select!: recv => Err(e): "Error reading from agent socket", break.
AgentRecvErr ==
    /\ am_pc = "active"
    /\ am_pc' = "disconnected"
    /\ UNCHANGED <<sending_command, lock_holder, chan, in_hist, enq_hist, hs, sock_out, pubs, rx_last, wr_hist>>
    /\ UNCHANGED bm_vars

\* ------------------------------------------------------------------- next
MqttNext ==
    \/ MqttConnectErr
    \/ MqttConnectSleepDone
    \/ MqttConnectNoResponse
    \/ MqttConnectOk
    \/ MqttSubscribeOk
    \/ MqttSubscribeFail
    \/ \E msg \in CommandPayloads : MqttDispatch(msg)
    \/ MqttSendResume
    \/ MqttStreamNone
    \/ MqttReconnectErr
    \/ MqttReconnectOk
    \/ MqttReconnectSleepDone

AgentNext ==
    \/ AgentLoopTop
    \/ AgentConnectFail
    \/ AgentConnectSleepDone
    \/ AgentConnectOk
    \/ \E ok \in BOOLEAN : AgentHandshakeSend(ok)
    \/ \E ok \in BOOLEAN : AgentSendCmd(ok)
    \/ \E datagram \in Datagrams : AgentRecv(datagram)
    \/ AgentRecvEof
    \/ AgentRecvErr

Next == MqttNext \/ AgentNext \/ BrokerConnectionLost

Spec == Init /\ [][Next]_vars

\* The scheduler resumes mqtt_manager whenever the future it awaits is
\* ready: a sleep ends, reconnect() and subscribe() resolve one way or the
\* other.  A broker that eventually accepts reconnects and subscriptions
\* does not refuse them forever.
FairSpec ==
    /\ Spec
    /\ WF_vars(MqttReconnectSleepDone)
    /\ WF_vars(MqttReconnectErr \/ MqttReconnectOk)
    /\ WF_vars(MqttSubscribeOk \/ MqttSubscribeFail)
    /\ SF_vars(MqttReconnectOk)
    /\ SF_vars(MqttSubscribeOk)

\* ================================================================ claims
Last(q) == q[Len(q)]

\* A step in which recv() returned a non-empty datagram.
RecvStep == rx_last' # None /\ <<rx_last, pubs>>' # <<rx_last, pubs>>

\* A step in which command_tx.send completed (and lines 140-160 ran).
ForwardStep == Len(enq_hist') = Len(enq_hist) + 1

\* The bytes are a JSON document (valid UTF-8, well-formed).
IsJson(b) == b.enc # "invalid" /\ b.syn # "malformed"

\* The document is an object holding `key` with an unsigned integer value.
HasUint(b, key) ==
    /\ b.syn = "object"
    /\ key \in DOMAIN b.fields
    /\ b.fields[key].type = "number"
    /\ b.fields[key].num >= 0

\* ---------------------------------------------------------------- C1
\* C1: every non-empty datagram from the agent endpoint that parses is
\* published exactly once, with its bytes unchanged: to miio/command_ack
\* when it carries an unsigned-integer id equal to the record's id at the
\* time of the comparison, to openmiio/report otherwise.
C1_AckOrReport ==
    [][ RecvStep /\ IsJson(Pick(rx_last')) =>
          LET d == Pick(rx_last')
              matches == HasUint(d, "id") /\ d.fields["id"].num = sending_command.id
          IN pubs' =
                << [topic |-> IF matches THEN "miio/command_ack" ELSE "openmiio/report",
                    payload |-> d] >> ]_vars

\* A response to command id 1 was acknowledged.
C1_Witness ==
    /\ sending_command.id = 1
    /\ rx_last = { Doc("utf8", "object", ("id" :> Num(1))) }
    /\ pubs = << [topic |-> "miio/command_ack",
                  payload |-> Doc("utf8", "object", ("id" :> Num(1)))] >>

\* ---------------------------------------------------------------- C2
\* C2 as stated: after a command payload is processed, each field whose key
\* the payload holds equals the payload's value for that key, and each field
\* whose key is absent keeps its value.
C2_PresentKeyAlwaysRecorded ==
    [][ ForwardStep =>
          LET p == Last(enq_hist')
              Present(key) == p.syn = "object" /\ key \in DOMAIN p.fields
              Holds(new, old, key) ==
                  IF Present(key) THEN Num(new) = p.fields[key] ELSE new = old
          IN /\ Holds(sending_command'.id, sending_command.id, "id")
             /\ Holds(sending_command'.to, sending_command.to, "_to")
             /\ Holds(sending_command'.from, sending_command.from, "_from") ]_vars

\* C2 (amended): a field of the record takes the value of its key when the
\* key is present with an unsigned-integer value, and keeps its value
\* otherwise (key absent, or present with a value that is no unsigned
\* integer); nothing but the processing of a command changes the record.
C2_StickyFields ==
    [][ /\ ~ForwardStep => sending_command' = sending_command
        /\ ForwardStep =>
             LET p == Last(enq_hist')
                 Field(old, key) ==
                     IF p.syn # "malformed" /\ HasUint(p, key)
                     THEN p.fields[key].num ELSE old
             IN /\ sending_command'.id = Field(sending_command.id, "id")
                /\ sending_command'.to = Field(sending_command.to, "_to")
                /\ sending_command'.from = Field(sending_command.from, "_from") ]_vars

\* {"id":1,"_to":1,"_from":2} then {"id":2}: id overwritten, to/from kept.
C2_Witness ==
    /\ Len(enq_hist) = 2
    /\ enq_hist[2] = Doc("utf8", "object", ("id" :> Num(2)))
    /\ sending_command = [id |-> 2, to |-> 1, from |-> 2]

\* ---------------------------------------------------------------- C3
ExpectedHandshake ==
    << [kind |-> "bind", address |-> bind_id],
       [kind |-> "register", key |-> "auto.report"],
       [kind |-> "register", key |-> "auto.forward"],
       [kind |-> "register", key |-> "lanbox.event"],
       [kind |-> "register", key |-> "auto.ifttt"],
       [kind |-> "register", key |-> "auto.cross.ifttt"],
       [kind |-> "register", key |-> "matter.control"],
       [kind |-> "register", key |-> "matter.event"],
       [kind |-> "register", key |-> "mtbr.control"] >>

IsPrefix(p, q) == Len(p) <= Len(q) /\ SubSeq(q, 1, Len(p)) = p

\* C3: a socket gets the bind and the eight registrations, in order, once:
\* nothing is sent while no connect has succeeded, the handshake in
\* progress is a prefix of the nine messages, and on an established
\* connection the nine messages come first and only commands follow.
C3_HandshakeOncePerConnection ==
    /\ am_pc \in {"connect", "connect_sleep"} => sock_out = <<>>
    /\ am_pc = "handshake" => Len(sock_out) = hs /\ IsPrefix(sock_out, ExpectedHandshake)
    /\ am_pc = "active" =>
          /\ IsPrefix(ExpectedHandshake, sock_out)
          /\ \A i \in 10..Len(sock_out) : sock_out[i].kind = "cmd"

\* A reconnection: commands went out on an earlier socket, and the current
\* socket has been sent the nine handshake messages and nothing else.
C3_Witness ==
    /\ am_pc = "active"
    /\ wr_hist # <<>>
    /\ sock_out = ExpectedHandshake

Decoded(m) == IF m.enc = "utf8" THEN m ELSE [m EXCEPT !.enc = "replaced"]

\* The record after lines 140-160 ran on the String s.
Recorded(rec, s) ==
    LET Field(old, key) ==
            IF s.syn # "malformed" /\ HasUint(s, key) THEN s.fields[key].num ELSE old
    IN [id |-> Field(rec.id, "id"), to |-> Field(rec.to, "_to"),
        from |-> Field(rec.from, "_from")]

ForwardedMsg == in_hist'[Len(enq_hist')]

C6_BadDatagramDiscarded ==
    [][ RecvStep /\ ~IsJson(Pick(rx_last')) =>
          /\ pubs' = <<>>
          /\ sending_command' = sending_command
          /\ am_pc = "active" /\ am_pc' = "active"
          /\ UNCHANGED <<sock_out, hs, chan, wr_hist>> ]_vars

\* A malformed datagram was received on a connection that had already
\* written a command; nothing was published and the connection is in use.
C6_Witness ==
    /\ rx_last = { Doc("utf8", "malformed", NoFields) }
    /\ pubs = <<>>
    /\ am_pc = "active"
    /\ Len(sock_out) = HandshakeLen + 1

\* ---------------------------------------------------------------- C7
\* The command payloads among the messages handed to the current socket.
CmdsOn(out) ==
    LET cmds == SelectSeq(out, LAMBDA m : m.kind = "cmd")
    IN [i \in 1..Len(cmds) |-> cmds[i].payload]

IsSuffix(p, q) ==
    Len(p) <= Len(q) /\ SubSeq(q, Len(q) - Len(p) + 1, Len(q)) = p

\* C7: the Strings handed to the endpoint write, followed by the Strings
\* still in the channel, are exactly the Strings enqueued, in the order of
\* enqueue (nothing altered, reordered, duplicated or skipped, across
\* reconnects); what the current socket was given is the tail of them.
C7_RoundTripFifo ==
    /\ wr_hist \o chan = enq_hist
    /\ IsSuffix(CmdsOn(sock_out), wr_hist)

\* Two different commands went out in order, the second on a new socket.
C7_Witness ==
    /\ Len(wr_hist) = 2
    /\ wr_hist[1] = Doc("utf8", "object", ("id" :> Num(2)))
    /\ wr_hist[2] = Doc("replaced", "malformed", NoFields)
    /\ CmdsOn(sock_out) = << wr_hist[2] >>

\* ---------------------------------------------------------------- C8
\* The states of the Agent Link Manager: Disconnected is the top of the outer
\* loop (start, or the delay after the select! loop broke), Connecting the
\* connect loop, Registered the connected socket receiving its handshake,
\* Active the select! loop.
AmStateOf(pc) ==
    CASE pc = "disconnected" -> "Disconnected"
      [] pc \in {"connect", "connect_sleep"} -> "Connecting"
      [] pc = "handshake" -> "Registered"
      [] pc = "active" -> "Active"

AmEdges ==
    { <<"Disconnected", "Connecting">>, <<"Connecting", "Registered">>,
      <<"Registered", "Active">>, <<"Active", "Disconnected">> }

\* C8: the manager moves only along Disconnected -> Connecting -> Registered
\* -> Active -> Disconnected; a failed command write, a zero-length read
\* and a read error each take it from Active to Disconnected; Active is
\* entered only with the bind and the eight registrations sent on the
\* socket; commands and endpoint data are serviced in Active only.
C8_StateMachine ==
    [][ /\ \/ AmStateOf(am_pc') = AmStateOf(am_pc)
           \/ <<AmStateOf(am_pc), AmStateOf(am_pc')>> \in AmEdges
        /\ (AgentSendCmd(FALSE) \/ AgentRecvEof \/ AgentRecvErr) =>
              am_pc = "active" /\ AmStateOf(am_pc') = "Disconnected"
        /\ (am_pc # "active" /\ am_pc' = "active") => sock_out' = ExpectedHandshake
        /\ (am_pc = "disconnected" /\ am_pc' # "disconnected") => sock_out' = <<>>
        /\ (wr_hist' # wr_hist \/ RecvStep
                \/ Len(chan') < Len(chan)) => am_pc = "active" ]_vars

\* Back in Active on a fresh socket after two commands went out before.
C8_Witness ==
    /\ am_pc = "active"
    /\ Len(wr_hist) = 2
    /\ CmdsOn(sock_out) = <<>>
    /\ Len(sock_out) = HandshakeLen

C10_DispatchOnlyWhenSubscribed ==
    [][ (bm_pc \in {"subscribe", "resubscribe"}) =>
          \/ UNCHANGED <<bm_pc, session, subscribed>>
          \/ bm_pc' = "dispatch" /\ session' = "connected" /\ subscribed'
          \/ bm_pc' # "dispatch" /\ session' = "disconnected" /\ subscribed' = FALSE ]_vars

\* --------------------------------------------------------------- C11
\* The operations ops, run with the lock held or not and taken before or
\* not, take the lock at most once, touch the record only while the lock is
\* held, await nothing while it is held and end without it.
RECURSIVE WellLocked(_, _, _)
WellLocked(ops, held, taken) ==
    IF ops = <<>> THEN ~held
    ELSE LET op == Head(ops)
         IN CASE op = "lock" -> ~held /\ ~taken /\ WellLocked(Tail(ops), TRUE, TRUE)
              [] op = "unlock" -> held /\ WellLocked(Tail(ops), FALSE, taken)
              [] op = "await_publish" -> ~held /\ WellLocked(Tail(ops), held, taken)
              [] OTHER -> held /\ WellLocked(Tail(ops), held, taken)

OneShortSection(ops) == WellLocked(ops, FALSE, FALSE)

\* C11: at most one task holds the lock of the record; nobody holds it while
\* the tasks stand at their await points (every state of the model); the
\* update of mqtt_manager (up to three fields) is one critical section, the
\* read-compare of agent_manager is one critical section, and neither
\* contains an await.
C11_LockDiscipline ==
    [][ /\ lock_holder = {} /\ lock_holder' = {}
        /\ Cardinality(lock_holder) <= 1 /\ Cardinality(lock_holder') <= 1
        /\ ForwardStep => OneShortSection(mqtt_section(Last(enq_hist')))
        /\ RecvStep => OneShortSection(agent_section(Pick(rx_last'))) ]_vars

\* All three fields were written from one command and a response carrying
\* its id was compared against the record; the lock is free.
C11_Witness ==
    /\ enq_hist = << Doc("utf8", "object",
                        ("id" :> Num(1)) @@ ("_to" :> Num(1)) @@ ("_from" :> Num(2))) >>
    /\ sending_command = [id |-> 1, to |-> 1, from |-> 2]
    /\ rx_last = { Doc("utf8", "object", ("id" :> Num(1))) }
    /\ lock_holder = {}

\* --------------------------------------------------------------- C12
\* The positions of agent_manager inside its outer loop.
AgentLoopPositions ==
    {"disconnected", "connect", "connect_sleep", "handshake", "active"}

\* A datagram was received and did not decode.
DecodeFailure == RecvStep /\ ~IsJson(Pick(rx_last'))

\* C12: agent_manager returns only from its select! loop, on finding the
\* channel empty with its Sender dropped; a connect failure, a failed
\* handshake send, a failed command write, a read error, a zero-length
\* read and a datagram that does not decode each leave it inside its loop.
C12_ReturnsOnlyOnClosedChannel ==
    [][ /\ (am_pc # "returned" /\ am_pc' = "returned") =>
              am_pc = "active" /\ chan = <<>> /\ bm_pc = "returned"
        /\ (AgentConnectFail \/ AgentHandshakeSend(FALSE) \/ AgentSendCmd(FALSE)
               \/ AgentRecvErr \/ AgentRecvEof \/ DecodeFailure) =>
              am_pc' \in AgentLoopPositions ]_vars

\* After a command write the connection was lost and made again, a connect
\* attempt having failed on the way or not, and a datagram that does not
\* decode was read on the new socket: agent_manager is in its select! loop.
C12_Witness ==
    /\ am_pc = "active"
    /\ wr_hist # <<>>
    /\ CmdsOn(sock_out) = <<>>
    /\ rx_last = { Doc("invalid", "object", ("id" :> Num(0))) }

\* --------------------------------------------------------------- C13
\* mqtt_manager is inside mqtt_reconnect.
InReconnectLoop(pc) == pc \in {"reconnect", "resubscribe", "reconnect_sleep"}

\* C13: a None on the stream takes mqtt_manager into the reconnect loop;
\* there a failed reconnect and a failed resubscribe are each followed by
\* the delay, the delay by a new reconnect, with no bound on the retries; a
\* reconnect that succeeds is followed by the resubscribe; no message is
\* dispatched while the loop runs; the loop is left only for the dispatch
\* loop, connected and subscribed; and, the broker not refusing forever, it
\* is left.
C13_ReconnectLoop ==
    /\ [][ /\ (bm_pc = "dispatch" /\ lost /\ bm_pc' # bm_pc) => bm_pc' = "reconnect"
           /\ (bm_pc = "reconnect" /\ bm_pc' # bm_pc) =>
                 \/ bm_pc' = "resubscribe" /\ session' = "connected"
                 \/ bm_pc' = "reconnect_sleep"
           /\ (bm_pc = "resubscribe" /\ bm_pc' # bm_pc) =>
                 \/ bm_pc' = "dispatch" /\ session' = "connected" /\ subscribed'
                 \/ bm_pc' = "reconnect_sleep" /\ subscribed' = FALSE
           /\ (bm_pc = "reconnect_sleep" /\ bm_pc' # bm_pc) => bm_pc' = "reconnect"
           /\ InReconnectLoop(bm_pc) =>
                 /\ UNCHANGED <<in_hist, enq_hist, sending_command>>
                 /\ Len(chan') <= Len(chan)
         ]_vars
    /\ InReconnectLoop(bm_pc) ~>
          (bm_pc = "dispatch" /\ session = "connected" /\ subscribed)

\* In the delay of the reconnect loop after a failed attempt, with commands
\* forwarded before the connection was lost.
C13_Witness ==
    /\ bm_pc = "reconnect_sleep"
    /\ session = "disconnected"
    /\ Len(enq_hist) = 2

\* --------------------------------------------------------------- C14
\* C14: whenever something is written, what the socket has been given
\* begins with the bind, and a command in it comes after the bind and the
\* eight registrations; while agent_manager is not in its select! loop
\* (Disconnected, Connecting, Registered) no command is written and the
\* commands in the channel stay there, in order, whatever is enqueued
\* behind them.
C14_HandshakeBeforeQueuedCommands ==
    [][ /\ sock_out' # sock_out =>
              /\ sock_out' # <<>> => sock_out'[1] = [kind |-> "bind", address |-> 0]
              /\ \A i \in 1..Len(sock_out') :
                    sock_out'[i].kind = "cmd" =>
                       i > 9 /\ SubSeq(sock_out', 1, 9) = ExpectedHandshake
        /\ am_pc # "active" =>
              /\ wr_hist' = wr_hist
              /\ chan' # chan => IsPrefix(chan, chan') ]_vars

\* The first command written on the first connection came out of a channel
\* that had filled up (mqtt_manager is still suspended on it): it went out
\* as the tenth message, after the bind and the eight registrations.
C14_Witness ==
    /\ am_pc = "active"
    /\ Len(wr_hist) = 1
    /\ sock_out = ExpectedHandshake \o << [kind |-> "cmd", payload |-> wr_hist[1]] >>
    /\ bm_pc = "send"
    /\ Len(chan) = ChanCap - 1

\* --------------------------------------------------------------- C15
\* The positions of h holding a command that carries an unsigned-integer id.
IdPositions(h) == {i \in 1..Len(h) : HasUint(h[i], "id")}

\* The greatest element of a non-empty set of numbers.
Greatest(S) == CHOOSE x \in S : \A y \in S : y <= x

\* C15: the record remembers the id of the most recently processed command
\* that carries one, and nothing of the ids before it: when a response
\* carries the id of an earlier command and a command with another id was
\* processed since, the response is published to openmiio/report.
C15_SingleSlot ==
    [][ /\ (ForwardStep /\ IdPositions(enq_hist') # {}) =>
              sending_command'.id =
                  enq_hist'[Greatest(IdPositions(enq_hist'))].fields["id"].num
        /\ ~ForwardStep => sending_command'.id = sending_command.id
        /\ (RecvStep /\ HasUint(Pick(rx_last'), "id") /\ IsJson(Pick(rx_last'))) =>
              LET d == Pick(rx_last')
                  P == IdPositions(enq_hist)
              IN (\E i \in P :
                     /\ enq_hist[i].fields["id"].num = d.fields["id"].num
                     /\ i < Greatest(P)
                     /\ enq_hist[Greatest(P)].fields["id"].num # d.fields["id"].num) =>
                    pubs' = << [topic |-> "openmiio/report", payload |-> d] >> ]_vars

\* Command 1 then command 2 were processed, then the response to command 1
\* was read: it went out as a report.
C15_Witness ==
    /\ Len(enq_hist) = 2
    /\ HasUint(enq_hist[1], "id") /\ enq_hist[1].fields["id"].num = 1
    /\ HasUint(enq_hist[2], "id") /\ enq_hist[2].fields["id"].num = 2
    /\ rx_last = { Doc("utf8", "object", ("id" :> Num(1))) }
    /\ pubs = << [topic |-> "openmiio/report",
                  payload |-> Doc("utf8", "object", ("id" :> Num(1)))] >>

\* --------------------------------------------------------------- C16
\* C16: every attempt that gives no usable connection is followed by the
\* delay before the next attempt: a connect error and a connect reply
\* without a connect response in the initial loop, a failed reconnect in
\* the reconnect loop, a failed subscribe in either, a failed connect to
\* the agent endpoint.
C16_DelayAfterEveryFailedAttempt ==
    [][ /\ (MqttConnectErr \/ MqttConnectNoResponse) => bm_pc' = "connect_sleep"
        /\ MqttReconnectErr => bm_pc' = "reconnect_sleep"
        /\ MqttSubscribeFail => bm_pc' \in {"connect_sleep", "reconnect_sleep"}
        /\ AgentConnectFail => am_pc' = "connect_sleep" ]_vars

\* --------------------------------------------------------------- C17
\* The record after the Strings of h were processed in order, from the default.
RECURSIVE RecordOf(_)
RecordOf(h) ==
    IF h = <<>> THEN [id |-> 0, to |-> 0, from |-> 0]
    ELSE Recorded(RecordOf(SubSeq(h, 1, Len(h) - 1)), h[Len(h)])

\* C17: in every state in which agent_manager can run (after every step
\* that enqueues, writes or touches the record), the record has been updated
\* from every command enqueued so far, hence from every command written to
\* the endpoint; so when the last command received from the
\* broker carries id k, has been written, and a response with id k is read,
\* the response is published to miio/command_ack.
C17_NoForwardRecordRace ==
    [][ /\ (wr_hist' # wr_hist \/ enq_hist' # enq_hist) => IsPrefix(wr_hist', enq_hist')
        /\ (sending_command' # sending_command \/ enq_hist' # enq_hist) =>
              sending_command' = RecordOf(enq_hist')
        /\ (/\ RecvStep
            /\ wr_hist # <<>> /\ Len(wr_hist) = Len(in_hist)
            /\ HasUint(Last(wr_hist), "id")
            /\ IsJson(Pick(rx_last')) /\ HasUint(Pick(rx_last'), "id")
            /\ Pick(rx_last').fields["id"].num = Last(wr_hist).fields["id"].num) =>
              pubs' = << [topic |-> "miio/command_ack", payload |-> Pick(rx_last')] >>
      ]_vars

\* The only command received carries id 1; it was written to the endpoint
\* and the response with id 1 was acknowledged.
C17_Witness ==
    /\ Len(in_hist) = 1
    /\ wr_hist = << Doc("utf8", "object",
                       ("id" :> Num(1)) @@ ("_to" :> Num(1)) @@ ("_from" :> Num(2))) >>
    /\ rx_last = { Doc("utf8", "object", ("id" :> Num(1))) }
    /\ pubs = << [topic |-> "miio/command_ack",
                  payload |-> Doc("utf8", "object", ("id" :> Num(1)))] >>

\* --------------------------------------------------------------- C18
\* C18: a datagram is published to miio/command_ack only if a command
\* carrying the same unsigned-integer id was received on miio/command
\* before; with no command received yet, none is.
C18_AckOnlyForReceivedId ==
    [][ (RecvStep /\ pubs' # <<>> /\ pubs'[1].topic = "miio/command_ack") =>
          \E i \in 1..Len(in_hist) :
             /\ HasUint(in_hist[i], "id")
             /\ in_hist[i].fields["id"].num = Pick(rx_last').fields["id"].num ]_vars

\* --------------------------------------------------------------- C19
\* C19: every String enqueued is either still in the channel or was handed
\* to one endpoint write; a write takes the oldest String out of the
\* channel, whether it succeeds or fails, and nothing puts it back; and
\* apart from a write nothing adds a command to what a socket was given,
\* so a new connection resends nothing.
C19_AtMostOnceDelivery ==
    [][ /\ Len(wr_hist') + Len(chan') = Len(enq_hist')
        /\ wr_hist' # wr_hist =>
              /\ chan # <<>>
              /\ wr_hist' = Append(wr_hist, Head(chan))
              /\ chan' = Tail(chan)
              /\ sock_out' = Append(sock_out, [kind |-> "cmd", payload |-> Head(chan)])
              /\ am_pc' \in {"active", "disconnected"}
        /\ wr_hist' = wr_hist =>
              /\ Len(chan') >= Len(chan)
              /\ sock_out' # sock_out =>
                    CmdsOn(sock_out') \in {CmdsOn(sock_out), <<>>} ]_vars

\* The one command enqueued was written on a connection that is gone; the
\* new connection has been given the handshake and nothing else, and the
\* channel is empty.
C19_Witness ==
    /\ Len(enq_hist) = 1
    /\ wr_hist = enq_hist
    /\ chan = <<>>
    /\ am_pc = "active"
    /\ sock_out = ExpectedHandshake

\* --------------------------------------------------------------- C20
\* C20: mqtt_manager is always inside its body (it never returns), so the
\* Sender it owns is never dropped; the branch of the select! loop for a
\* closed channel is never ready and agent_manager never returns.
C20_SenderAlwaysLive ==
    /\ bm_pc \in {"connect", "connect_sleep", "subscribe", "dispatch", "send",
                  "reconnect", "resubscribe", "reconnect_sleep"}
    /\ ~command_tx_dropped
    /\ ~(am_pc = "active" /\ chan = <<>> /\ command_tx_dropped)
    /\ am_pc \in AgentLoopPositions

\* The broker connection was lost and a reconnect attempt failed, the agent
\* connection was lost after a command write and a connect attempt failed:
\* both tasks are in their retry delays, a command is waiting in the channel.
C20_Witness ==
    /\ bm_pc = "reconnect_sleep"
    /\ am_pc = "connect_sleep"
    /\ wr_hist # <<>>
    /\ chan # <<>>

====
